---------------------------- MODULE Spec2Model ----------------------------
(***************************************************************************)
(* hack/check-trivy.py: cross-check of the .trivyignore list against the   *)
(* Debian security tracker.  One run = read the ignore list, fetch the     *)
(* tracker data, classify every (package, cve) record, compute the exit    *)
(* status.  Strings that the code trims / prefix-tests are sequences of    *)
(* one-character strings.                                                  *)
(***************************************************************************)
EXTENDS Integers, Sequences, FiniteSets, TLC

VARIABLES
    file,               \* lines of the file at args.trivy_ignore (with their line ends)
    fileOk,             \* open(file_path, 'r') succeeds
    distribution,       \* args.distribution
    remote,             \* <<>> before the first request, then <<the response served>>
    pc,                 \* position of the run in the script
    ln,                 \* read_trivy_filter: index of the next line of the file
    filtered_cve_list,  \* read_trivy_filter: the list being built
    ignored_cves,       \* __main__: ignored_cves
    all_cves,           \* __main__: all_cves ([ok |-> FALSE, ...] is None)
    resolved,           \* __main__: resolved
    pi,                 \* outer loop: index of the current package
    ci,                 \* inner loop: index of the current cve of the package
    log,                \* records emitted by the logger, in order
    out,                \* lines printed on stdout
    visited,            \* history: the branch each loop iteration took
    requests,           \* number of requests.get calls of this run
    exit,               \* process exit status, -1 while running
    run,                \* 1 for the first run, 2 for a second run on the same inputs
    first               \* <<>> or <<outcome of the first run>>

vars == <<file, fileOk, distribution, remote, pc, ln, filtered_cve_list,
          ignored_cves, all_cves, resolved, pi, ci, log, out, visited,
          requests, exit, run, first>>

-----------------------------------------------------------------------------
(* Bounds of the model *)

MaxLines == 3       \* lines of an ignore file (reader specification)
MaxPkgs == 2        \* packages in the fetched dataset
MaxRecords == 3     \* (package, cve) records in the fetched dataset

-----------------------------------------------------------------------------
(* Strings *)

Whitespace == {" ", "\t", "\n"}

RECURSIVE lstrip(_)
lstrip(s) == IF s # <<>> /\ Head(s) \in Whitespace THEN lstrip(Tail(s)) ELSE s

RECURSIVE rstrip(_)
rstrip(s) ==
    IF s # <<>> /\ s[Len(s)] \in Whitespace
    THEN rstrip(SubSeq(s, 1, Len(s) - 1))
    ELSE s

strip(s) == rstrip(lstrip(s))

startswith(s, prefix) ==
    /\ Len(s) >= Len(prefix)
    /\ SubSeq(s, 1, Len(prefix)) = prefix

CVE_PREFIX == <<"C", "V", "E">>

(* Python lists *)

In(x, list) == \E i \in 1..Len(list) : list[i] = x

KeepAll(list, x) == list

\* list.remove(x): the first occurrence goes
remove(list, x) ==
    LET i == CHOOSE k \in 1..Len(list) :
                 list[k] = x /\ \A j \in 1..(k - 1) : list[j] # x
    IN  SubSeq(list, 1, i - 1) \o SubSeq(list, i + 1, Len(list))

-----------------------------------------------------------------------------
(* Inputs *)

CVE1 == <<"C", "V", "E", "-", "1">>
CVE2 == <<"C", "V", "E", "-", "2">>
CveIds == {CVE1, CVE2}

NL == <<"\n">>

\* lines of the reader specification: entries, whitespace variants of an
\* entry, a comment naming an entry, a line shorter than the prefix, a blank
ReaderLines ==
    { CVE1 \o NL,
      <<" ", "\t">> \o CVE1 \o <<" ">> \o NL,
      CVE2,
      <<"#", " ">> \o CVE1 \o NL,
      <<"C", "V">> \o NL,
      NL }

BoundedSeq(S, n) == UNION {[1..k -> S] : k \in 0..n}

ReaderFiles == BoundedSeq(ReaderLines, MaxLines)

\* ignore files of a whole run
RunFiles ==
    { <<>>,
      << <<"#", " ">> \o CVE1 \o NL, CVE2 \o NL >>,
      << CVE1 \o NL, <<" ">> \o CVE2 \o <<" ">> \o NL >>,
      << CVE2 \o NL, CVE1 \o NL, CVE1 \o NL >> }

\* ignore files of the two-run specification: those with a line that adds
\* no entry (a comment, a duplicate)
TwiceFiles ==
    {f \in RunFiles : Cardinality({strip(f[i]) : i \in 1..Len(f)} \cap CveIds) < Len(f)}

Distributions == {"bullseye", "bookworm"}

\* release entries of a tracker record
EOpen == [status |-> "open", urgency |-> "low"]
EResolved == [status |-> "resolved", urgency |-> "low"]
ENoStatus == [urgency |-> "low"]

\* tracker records: without "releases", without bullseye, bullseye without
\* status, bullseye open, bullseye resolved
Records ==
    { [description |-> "d"],
      [releases |-> ("bookworm" :> EResolved)],
      [releases |-> ("bullseye" :> ENoStatus)],
      [releases |-> ("bullseye" :> EOpen @@ "bookworm" :> EResolved)],
      [releases |-> ("bullseye" :> EResolved @@ "bookworm" :> EOpen)] }

PkgName(i) == <<"pkg", i>>

\* the cves of a package: an ordered mapping with distinct keys
PackageCves ==
    { e \in BoundedSeq([cve : CveIds, rec : Records], Cardinality(CveIds)) :
        \A i, j \in 1..Len(e) : i # j => e[i].cve # e[j].cve }

RECURSIVE TotalRecords(_)
TotalRecords(d) == IF d = <<>> THEN 0 ELSE Len(Head(d)) + TotalRecords(Tail(d))

\* datasets: ordered mappings package -> cve -> record
Datasets ==
    { [i \in 1..Len(d) |-> [name |-> PkgName(i), cves |-> d[i]]] :
        d \in { x \in BoundedSeq(PackageCves, MaxPkgs) : TotalRecords(x) <= MaxRecords } }

HTTP_OK == 200
Statuses == {HTTP_OK, 404, 503}

None == [ok |-> FALSE, data |-> <<>>]
Some(d) == [ok |-> TRUE, data |-> d]

-----------------------------------------------------------------------------
(* Logging *)

LevelNo(level) ==
    CASE level = "DEBUG" -> 10
      [] level = "INFO" -> 20
      [] level = "WARNING" -> 30
      [] level = "ERROR" -> 40

LoggerLevel == "INFO"
HandlerLevel == "DEBUG"

Emit(l, level, msg, args) ==
    IF LevelNo(level) >= LevelNo(LoggerLevel) /\ LevelNo(level) >= LevelNo(HandlerLevel)
    THEN Append(l, [level |-> level, msg |-> msg, args |-> args])
    ELSE l

-----------------------------------------------------------------------------
(* Initial states *)

FreshProcess ==
    /\ pc = "read"
    /\ ln = 1
    /\ filtered_cve_list = <<>>
    /\ ignored_cves = <<>>
    /\ all_cves = None
    /\ resolved = FALSE
    /\ pi = 1
    /\ ci = 1
    /\ log = <<>>
    /\ out = <<>>
    /\ visited = <<>>
    /\ requests = 0
    /\ exit = -1

Init ==
    /\ file \in RunFiles
    /\ fileOk \in BOOLEAN
    /\ distribution \in Distributions
    /\ remote = <<>>
    /\ run = 1
    /\ first = <<>>
    /\ FreshProcess

InitReader ==
    /\ file \in ReaderFiles
    /\ fileOk \in BOOLEAN
    /\ distribution = "bullseye"
    /\ remote = <<>>
    /\ run = 1
    /\ first = <<>>
    /\ FreshProcess

InitTwice ==
    /\ file \in TwiceFiles
    /\ fileOk \in BOOLEAN
    /\ distribution = "bullseye"
    /\ remote = <<>>
    /\ run = 1
    /\ first = <<>>
    /\ FreshProcess

-----------------------------------------------------------------------------
(* read_trivy_filter, one step per line of the file *)

readFrame ==
    UNCHANGED <<file, fileOk, distribution, remote, all_cves, resolved, pi, ci,
                log, out, visited, requests, run, first>>

\* open() raises: the exception is not caught, the interpreter exits with 1
OpenFails ==
    /\ pc = "read"
    /\ ~fileOk
    /\ pc' = "crashed"
    /\ exit' = 1
    /\ UNCHANGED <<ln, filtered_cve_list, ignored_cves>>
    /\ readFrame

IsEntryUntrimmed(line) == startswith(line, CVE_PREFIX)

IsEntry(line) == startswith(strip(line), CVE_PREFIX)

NeverListed(line, list) == FALSE

Listed(line, list) == In(strip(line), list)

AtLine == pc = "read" /\ fileOk /\ ln <= Len(file)

ReadSkipLine ==
    /\ AtLine
    /\ ~IsEntry(file[ln])
    /\ ln' = ln + 1
    /\ UNCHANGED <<pc, exit, filtered_cve_list, ignored_cves>>
    /\ readFrame

ReadDuplicate ==
    /\ AtLine
    /\ IsEntry(file[ln])
    /\ Listed(file[ln], filtered_cve_list)
    /\ ln' = ln + 1
    /\ UNCHANGED <<pc, exit, filtered_cve_list, ignored_cves>>
    /\ readFrame

ReadAppend ==
    /\ AtLine
    /\ IsEntry(file[ln])
    /\ ~Listed(file[ln], filtered_cve_list)
    /\ filtered_cve_list' = Append(filtered_cve_list, strip(file[ln]))
    /\ ln' = ln + 1
    /\ UNCHANGED <<pc, exit, ignored_cves>>
    /\ readFrame

ReadReturn ==
    /\ pc = "read"
    /\ fileOk
    /\ ln > Len(file)
    /\ ignored_cves' = filtered_cve_list
    /\ pc' = "fetch"
    /\ UNCHANGED <<ln, exit, filtered_cve_list>>
    /\ readFrame

NextReader ==
    \/ OpenFails
    \/ ReadSkipLine
    \/ ReadDuplicate
    \/ ReadAppend
    \/ ReadReturn

SpecReader == InitReader /\ [][NextReader]_vars

-----------------------------------------------------------------------------
(* retrieve_debian_data and the test of its result *)

fetchFrame ==
    UNCHANGED <<file, fileOk, distribution, ln, filtered_cve_list, ignored_cves,
                resolved, pi, ci, log, visited, run, first>>

\* what the remote can answer: an error status with any body, or 200 with
\* a dataset or with a body that is not JSON
Responses ==
    [status : Statuses \ {HTTP_OK}, body : {"html", "json"}, data : {<<>>}]
        \cup [status : {HTTP_OK}, body : {"json"}, data : Datasets]
        \cup [status : {HTTP_OK}, body : {"html"}, data : {<<>>}]

\* anything on first contact, the same answer again afterwards
Answers == IF remote = <<>> THEN Responses ELSE {remote[1]}

RetryFetch == "fetch"

AfterFailedFetch == "check"

FetchFails ==
    /\ pc = "fetch"
    /\ \E r \in Answers :
           /\ r.status # HTTP_OK
           /\ remote' = <<r>>
    /\ requests' = requests + 1
    /\ out' = Append(out, "Error while retrieving the data")
    /\ all_cves' = None
    /\ pc' = AfterFailedFetch
    /\ UNCHANGED exit
    /\ fetchFrame

FetchOk ==
    /\ pc = "fetch"
    /\ \E r \in Answers :
           /\ r.status = HTTP_OK
           /\ r.body = "json"
           /\ remote' = <<r>>
           /\ all_cves' = Some(r.data)
    /\ requests' = requests + 1
    /\ pc' = "check"
    /\ UNCHANGED <<out, exit>>
    /\ fetchFrame

\* json.loads raises on a body that is not JSON: uncaught, exit status 1
FetchMalformed ==
    /\ pc = "fetch"
    /\ \E r \in Answers :
           /\ r.status = HTTP_OK
           /\ r.body # "json"
           /\ remote' = <<r>>
    /\ requests' = requests + 1
    /\ pc' = "crashed"
    /\ exit' = 1
    /\ UNCHANGED <<out, all_cves>>
    /\ fetchFrame

NeverNone(v) == FALSE

IsNone(v) == ~v.ok

checkFrame ==
    UNCHANGED <<file, fileOk, distribution, remote, ln, filtered_cve_list,
                ignored_cves, all_cves, resolved, log, out, visited, requests,
                run, first>>

ExitFetchFailed ==
    /\ pc = "check"
    /\ IsNone(all_cves)
    /\ exit' = 1
    /\ pc' = "done"
    /\ UNCHANGED <<pi, ci>>
    /\ checkFrame

EnterLoop ==
    /\ pc = "check"
    /\ ~IsNone(all_cves)
    /\ pc' = "classify"
    /\ pi' = 1
    /\ ci' = 1
    /\ UNCHANGED exit
    /\ checkFrame

-----------------------------------------------------------------------------
(* The classification loops, one step per (package, cve) of the dataset *)

loopFrame ==
    UNCHANGED <<file, fileOk, distribution, remote, ln, filtered_cve_list,
                all_cves, out, requests, exit, run, first>>

InPackage == pc = "classify" /\ pi <= Len(all_cves.data)

\* iteration order that depends on the process (hash-ordered mapping)
packageHashOrder ==
    all_cves.data[IF run = 2 THEN Len(all_cves.data) + 1 - pi ELSE pi]

\* json.loads keeps the order of the document, keys() the order of insertion
package == all_cves.data[pi]

AtCve == InPackage /\ ci <= Len(package.cves)

cve == package.cves[ci].cve

record == package.cves[ci].rec

Tracked == In(cve, ignored_cves)

Visit(branch) ==
    visited' = Append(visited, [package |-> package.name, cve |-> cve, branch |-> branch])

HasReleases(rec) == "releases" \in DOMAIN rec

HasDistribution(rec) == distribution \in DOMAIN rec.releases

HasStatus(rec) == "status" \in DOMAIN rec.releases[distribution]

StatusOf(rec) == rec.releases[distribution].status

\* for package in all_cves.keys(): the cves of the package are exhausted
NextPackage ==
    /\ InPackage
    /\ ci > Len(package.cves)
    /\ pi' = pi + 1
    /\ ci' = 1
    /\ UNCHANGED <<pc, ignored_cves, resolved, log, visited>>
    /\ loopFrame

\* the packages are exhausted
LeaveLoop ==
    /\ pc = "classify"
    /\ pi > Len(all_cves.data)
    /\ pc' = "verdict"
    /\ UNCHANGED <<pi, ci, ignored_cves, resolved, log, visited>>
    /\ loopFrame

\* if cve in ignored_cves: is false
SkipUntracked ==
    /\ AtCve
    /\ ~Tracked
    /\ Visit("untracked")
    /\ ci' = ci + 1
    /\ UNCHANGED <<pc, pi, ignored_cves, resolved, log>>
    /\ loopFrame

DistributionNotInPackageRemoves ==
    /\ AtCve
    /\ Tracked
    /\ HasReleases(record)
    /\ ~HasDistribution(record)
    /\ log' = Emit(log, "INFO", "is not in", <<distribution, package.name>>)
    /\ ignored_cves' = remove(ignored_cves, cve)
    /\ Visit("no_distribution")
    /\ ci' = ci + 1
    /\ UNCHANGED <<pc, pi, resolved>>
    /\ loopFrame

\* the distribution is not in the releases of the record: continue
DistributionNotInPackage ==
    /\ AtCve
    /\ Tracked
    /\ HasReleases(record)
    /\ ~HasDistribution(record)
    /\ log' = Emit(log, "INFO", "is not in", <<distribution, package.name>>)
    /\ Visit("no_distribution")
    /\ ci' = ci + 1
    /\ UNCHANGED <<pc, pi, ignored_cves, resolved>>
    /\ loopFrame

StatusNotFoundFatal ==
    /\ AtCve
    /\ Tracked
    /\ \/ ~HasReleases(record)
       \/ HasReleases(record) /\ HasDistribution(record) /\ ~HasStatus(record)
    /\ pc' = "crashed"
    /\ exit' = 1
    /\ Visit("key_error")
    /\ UNCHANGED <<pi, ci, ignored_cves, resolved, log>>
    /\ UNCHANGED <<file, fileOk, distribution, remote, ln, filtered_cve_list,
                   all_cves, out, requests, run, first>>

\* KeyError: the record has no "releases", or the release entry no "status"
StatusNotFound ==
    /\ AtCve
    /\ Tracked
    /\ \/ ~HasReleases(record)
       \/ HasReleases(record) /\ HasDistribution(record) /\ ~HasStatus(record)
    /\ log' = Emit(log, "WARNING", "status not found", <<cve>>)
    /\ Visit("key_error")
    /\ ci' = ci + 1
    /\ UNCHANGED <<pc, pi, ignored_cves, resolved>>
    /\ loopFrame

FoundResolved ==
    /\ AtCve
    /\ Tracked
    /\ HasReleases(record) /\ HasDistribution(record) /\ HasStatus(record)
    /\ StatusOf(record) = "resolved"
    /\ log' = Emit(log, "WARNING", "has been resolved", <<cve>>)
    /\ resolved' = TRUE
    /\ ignored_cves' = remove(ignored_cves, cve)
    /\ Visit("resolved")
    /\ ci' = ci + 1
    /\ UNCHANGED <<pc, pi>>
    /\ loopFrame

FoundNotResolved ==
    /\ AtCve
    /\ Tracked
    /\ HasReleases(record) /\ HasDistribution(record) /\ HasStatus(record)
    /\ StatusOf(record) # "resolved"
    /\ log' = Emit(log, "DEBUG", "has been found but it is not resolved", <<cve>>)
    /\ ignored_cves' = remove(ignored_cves, cve)
    /\ Visit("not_resolved")
    /\ ci' = ci + 1
    /\ UNCHANGED <<pc, pi, resolved>>
    /\ loopFrame

-----------------------------------------------------------------------------
(* The verdict *)

verdictFrame ==
    UNCHANGED <<file, fileOk, distribution, remote, ln, filtered_cve_list,
                ignored_cves, all_cves, resolved, pi, ci, out, visited, requests,
                run, first>>

ResolvedPassesAs(flag) == FALSE

FailsOnResolved(flag) == flag

ExitResolved ==
    /\ pc = "verdict"
    /\ FailsOnResolved(resolved)
    /\ exit' = 1
    /\ pc' = "done"
    /\ UNCHANGED log
    /\ verdictFrame

ExitNotFound ==
    /\ pc = "verdict"
    /\ ~FailsOnResolved(resolved)
    /\ Len(ignored_cves) # 0
    /\ log' = Emit(log, "ERROR", "has not been found", <<ignored_cves>>)
    /\ exit' = 1
    /\ pc' = "done"
    /\ verdictFrame

\* the script runs off its end
ExitSuccess ==
    /\ pc = "verdict"
    /\ ~FailsOnResolved(resolved)
    /\ Len(ignored_cves) = 0
    /\ exit' = 0
    /\ pc' = "done"
    /\ UNCHANGED log
    /\ verdictFrame

Next ==
    \/ OpenFails
    \/ ReadSkipLine
    \/ ReadDuplicate
    \/ ReadAppend
    \/ ReadReturn
    \/ FetchFails
    \/ FetchOk
    \/ FetchMalformed
    \/ ExitFetchFailed
    \/ EnterLoop
    \/ NextPackage
    \/ LeaveLoop
    \/ SkipUntracked
    \/ DistributionNotInPackage
    \/ StatusNotFound
    \/ FoundResolved
    \/ FoundNotResolved
    \/ ExitResolved
    \/ ExitNotFound
    \/ ExitSuccess

Spec == Init /\ [][Next]_vars

-----------------------------------------------------------------------------
(* A second run of the script on the same file, arguments and remote *)

Outcome ==
    [pc |-> pc, exit |-> exit, resolved |-> resolved, ignored_cves |-> ignored_cves,
     log |-> log, out |-> out, visited |-> visited]

\* a new interpreter: nothing of the previous process is kept
StartProcess ==
    /\ pc' = "read"
    /\ ln' = 1
    /\ filtered_cve_list' = <<>>
    /\ ignored_cves' = <<>>
    /\ all_cves' = None
    /\ resolved' = FALSE
    /\ pi' = 1
    /\ ci' = 1
    /\ log' = <<>>
    /\ out' = <<>>
    /\ visited' = <<>>
    /\ requests' = 0
    /\ exit' = -1

Rerun ==
    /\ pc \in {"done", "crashed"}
    /\ run = 1
    /\ first' = <<Outcome>>
    /\ run' = 2
    /\ StartProcess
    /\ UNCHANGED <<file, fileOk, distribution, remote>>

NextTwice == Next \/ Rerun

SpecTwice == InitTwice /\ [][NextTwice]_vars

-----------------------------------------------------------------------------
(* Vocabulary of the properties *)

SetOf(list) == {list[i] : i \in 1..Len(list)}

NoDuplicates(list) == \A i, j \in 1..Len(list) : i # j => list[i] # list[j]

\* the trimmed lines of the file that start with "CVE"
ReaderIds ==
    {strip(file[i]) : i \in {k \in 1..Len(file) : startswith(strip(file[k]), CVE_PREFIX)}}

RECURSIVE Flat(_)
\* the records of a dataset in the order the loops visit them
Flat(d) ==
    IF d = <<>> THEN <<>>
    ELSE [i \in 1..Len(Head(d).cves) |->
             [package |-> Head(d).name, cve |-> Head(d).cves[i].cve,
              rec |-> Head(d).cves[i].rec]] \o Flat(Tail(d))

Fetched == Flat(all_cves.data)

HasEntryFor(rec) ==
    /\ "releases" \in DOMAIN rec
    /\ distribution \in DOMAIN rec.releases

HasStatusFor(rec) ==
    /\ HasEntryFor(rec)
    /\ "status" \in DOMAIN rec.releases[distribution]

IsResolvedFor(rec) ==
    /\ HasStatusFor(rec)
    /\ rec.releases[distribution].status = "resolved"

FetchSucceeded == remote # <<>> /\ remote[1].status = HTTP_OK /\ all_cves.ok

FetchFailed == requests = 1 /\ remote # <<>> /\ remote[1].status # HTTP_OK

Logged(level, msg, args) ==
    \E i \in 1..Len(log) : log[i] = [level |-> level, msg |-> msg, args |-> args]

VisitedAs(x, branch) ==
    \E i \in 1..Len(visited) : visited[i].cve = x /\ visited[i].branch = branch

\* a step of the classification loop that handles one record
RecordStep == pc = "classify" /\ Len(visited') = Len(visited) + 1

\* the record such a step handles, as fetched
Handled == Fetched[Len(visited) + 1]

\* a later record of the same identifier has a status for the distribution
MatchedAfter(k) ==
    \E j \in (k + 1)..Len(Fetched) :
        Fetched[j].cve = Fetched[k].cve /\ HasStatusFor(Fetched[j].rec)

-----------------------------------------------------------------------------
(* Claims *)

\* C1: whenever the fetch succeeded and the run is over, every ignored
\* identifier that has, under some package, a record whose status for the
\* target distribution is "resolved" made the run exit with 1 and was logged
\* as resolved.
C1_ResolvedAlwaysFails ==
    (pc = "done" /\ FetchSucceeded) =>
        \A k \in 1..Len(Fetched) :
            (Fetched[k].cve \in ReaderIds /\ IsResolvedFor(Fetched[k].rec)) =>
                /\ exit = 1
                /\ Logged("WARNING", "has been resolved", <<Fetched[k].cve>>)

\* C2: at the verdict the exit status is 0 or 1, and it is 0 exactly when the
\* fetch succeeded, no identifier was classified as resolved and the ignore
\* set is empty; a run that exits 0 has classified every identifier of the
\* reader as found and not resolved; an empty ignore list with a successful
\* fetch exits 0.
C2_ExitStatus ==
    pc = "done" =>
        /\ exit \in {0, 1}
        /\ exit = 0 <=>
              /\ FetchSucceeded
              /\ \A i \in 1..Len(visited) : visited[i].branch # "resolved"
              /\ ignored_cves = <<>>
        /\ exit = 0 => \A x \in ReaderIds : VisitedAs(x, "not_resolved")
        /\ (FetchSucceeded /\ ReaderIds = {}) => exit = 0

C2_Witness ==
    /\ pc = "done"
    /\ exit = 0
    /\ Cardinality(ReaderIds) = 2
    /\ \E i \in 1..Len(visited) : visited[i].branch = "no_distribution"

\* C4: after a response whose status is not 200 the run is at the test of the
\* result or over with exit status 1; no record was classified, the resolved
\* flag is false, the logger emitted nothing, one request was issued, and the
\* ignore set holds the identifiers of the reader, each once.
C4_FetchFailureAborts ==
    FetchFailed =>
        /\ pc \in {"check", "done"}
        /\ pc = "done" => exit = 1
        /\ pc = "check" => exit = -1
        /\ ~all_cves.ok
        /\ visited = <<>>
        /\ resolved = FALSE
        /\ log = <<>>
        /\ out = <<"Error while retrieving the data">>
        /\ SetOf(ignored_cves) = ReaderIds
        /\ NoDuplicates(ignored_cves)

C4_Witness ==
    /\ FetchFailed
    /\ pc = "done"
    /\ exit = 1
    /\ Len(ignored_cves) = 2

\* C5: at the end of a run whose fetch succeeded every identifier of the
\* reader is in exactly one of: classified as found and not resolved;
\* classified as resolved; still in the ignore set.
C5_ExactlyOneState ==
    (pc = "done" /\ FetchSucceeded) =>
        \A x \in ReaderIds :
            LET a == IF VisitedAs(x, "not_resolved") THEN 1 ELSE 0
                b == IF VisitedAs(x, "resolved") THEN 1 ELSE 0
                c == IF In(x, ignored_cves) THEN 1 ELSE 0
            IN  a + b + c = 1

C5_Witness ==
    /\ pc = "done"
    /\ FetchSucceeded
    /\ Len(file) = 3
    /\ \E x \in ReaderIds : VisitedAs(x, "not_resolved") /\ ~In(x, ignored_cves)
    /\ \E x \in ReaderIds : In(x, ignored_cves) /\ VisitedAs(x, "key_error")

\* C7: the list read_trivy_filter returns holds exactly the trimmed lines of
\* the file that start with "CVE", each once.
C7_ReaderExact ==
    pc = "fetch" =>
        /\ SetOf(ignored_cves) = ReaderIds
        /\ NoDuplicates(ignored_cves)
        /\ \A i \in 1..Len(file) :
               ~startswith(strip(file[i]), CVE_PREFIX) =>
                   /\ file[i] \notin SetOf(ignored_cves)
                   /\ strip(file[i]) \notin SetOf(ignored_cves)

C7_Witness ==
    /\ pc = "fetch"
    /\ Len(ignored_cves) = 1
    /\ \E i, j \in 1..Len(file) :
           file[i] # file[j] /\ strip(file[i]) = strip(file[j]) /\ IsEntry(file[i])
    /\ \E i \in 1..Len(file) : ~IsEntry(file[i]) /\ strip(file[i]) # <<>>

\* C9: no request is issued before read_trivy_filter has returned, none at
\* all when the file cannot be opened (the run then crashes with status 1),
\* and never more than one.
C9_ReadThenOneRequest ==
    /\ requests \in {0, 1}
    /\ requests = 1 => (fileOk /\ pc # "read" /\ ln > Len(file))
    /\ pc = "read" => (requests = 0 /\ remote = <<>>)
    /\ ~fileOk =>
          /\ requests = 0
          /\ remote = <<>>
          /\ pc \in {"read", "crashed"}
          /\ pc = "crashed" => exit = 1

C9_Witness ==
    /\ ~fileOk
    /\ pc = "crashed"
    /\ file # <<>>

\* the step handles a record of a tracked identifier whose releases lack
\* the target distribution
MeetsNoDistribution ==
    /\ RecordStep
    /\ In(Handled.cve, ignored_cves)
    /\ "releases" \in DOMAIN Handled.rec
    /\ distribution \notin DOMAIN Handled.rec.releases

\* the step handles a record of a tracked identifier whose entry for the
\* target distribution lacks the status
MeetsNoStatus ==
    /\ RecordStep
    /\ In(Handled.cve, ignored_cves)
    /\ HasEntryFor(Handled.rec)
    /\ ~HasStatusFor(Handled.rec)

\* at the end of the run: the identifier of the k-th record was removed if a
\* later record of it has a status for the distribution, and otherwise is
\* still in the ignore set and the run failed
LeftUnlessMatchedAfter(k) ==
    IF MatchedAfter(k)
    THEN ~In(Fetched[k].cve, ignored_cves)
    ELSE In(Fetched[k].cve, ignored_cves) /\ exit = 1

\* C3 as stated: an identifier met, while tracked, in a record without the
\* target distribution is in the ignore set at the end and the run exits 1.
C3_NoDistributionStaysUnmatched ==
    pc = "done" =>
        \A k \in 1..Len(visited) :
            visited[k].branch = "no_distribution" =>
                In(visited[k].cve, ignored_cves) /\ exit = 1

\* C3, amended: the step that meets a tracked identifier in a record without
\* the target distribution emits the note and changes neither the ignore set
\* nor the resolved flag; at the end of the run the identifier is still in the
\* ignore set and the run exits 1, unless a later record of the identifier
\* has a status for the target distribution, and then it has been removed.
C3_NoDistributionKeptUntilMatched ==
    [][ /\ MeetsNoDistribution =>
            /\ ignored_cves' = ignored_cves
            /\ resolved' = resolved
            /\ pc' = "classify"
            /\ visited'[Len(visited')].branch = "no_distribution"
            /\ log' = Append(log, [level |-> "INFO", msg |-> "is not in",
                                   args |-> <<distribution, Handled.package>>])
        /\ (pc = "verdict" /\ pc' = "done") =>
            \A k \in 1..Len(visited) :
                visited[k].branch = "no_distribution" => LeftUnlessMatchedAfter(k)'
      ]_vars

C3_Witness ==
    /\ pc = "done"
    /\ exit = 0
    /\ \E k \in 1..Len(visited) :
           visited[k].branch = "no_distribution" /\ MatchedAfter(k)

\* C6 as stated: an identifier met, while tracked, in a record whose entry
\* for the target distribution lacks the status is in the ignore set at the
\* end and the run exits 1.
C6_NoStatusStaysUnmatched ==
    pc = "done" =>
        \A k \in 1..Len(visited) :
            (visited[k].branch = "key_error" /\ HasEntryFor(Fetched[k].rec)) =>
                In(visited[k].cve, ignored_cves) /\ exit = 1

\* C6, amended: the step that meets a tracked identifier in a record whose
\* entry for the target distribution lacks the status emits the "status not
\* found" warning, changes neither the ignore set nor the resolved flag and
\* goes on with the next record; at the end of the run the identifier is
\* still in the ignore set and the run exits 1, unless a later record of the
\* identifier has a status for the target distribution, and then it has been
\* removed.
C6_NoStatusKeptUntilMatched ==
    [][ /\ MeetsNoStatus =>
            /\ ignored_cves' = ignored_cves
            /\ resolved' = resolved
            /\ pc' = "classify"
            /\ exit' = -1
            /\ <<pi', ci'>> = <<pi, ci + 1>>
            /\ visited'[Len(visited')].branch = "key_error"
            /\ log' = Append(log, [level |-> "WARNING", msg |-> "status not found",
                                   args |-> <<Handled.cve>>])
        /\ (pc = "verdict" /\ pc' = "done") =>
            \A k \in 1..Len(visited) :
                (visited[k].branch = "key_error" /\ HasEntryFor(Fetched[k].rec)) =>
                    LeftUnlessMatchedAfter(k)'
      ]_vars

C6_Witness ==
    /\ pc = "done"
    /\ exit = 0
    /\ \E k \in 1..Len(visited) :
           /\ visited[k].branch = "key_error"
           /\ HasEntryFor(Fetched[k].rec)
           /\ MatchedAfter(k)

\* C8: a second run on the same file, arguments and remote response ends as
\* the first did: same end (exit or crash), same exit status, same resolved
\* flag, same identifiers left in the ignore set, same branches taken and same
\* output.
C8_SecondRunAgrees ==
    (run = 2 /\ pc \in {"done", "crashed"}) =>
        /\ first[1].pc = pc
        /\ first[1].exit = exit
        /\ first[1].resolved = resolved
        /\ SetOf(first[1].ignored_cves) = SetOf(ignored_cves)
        /\ first[1].visited = visited
        /\ first[1].log = log
        /\ first[1].out = out

C8_Witness ==
    /\ run = 2
    /\ pc = "done"
    /\ exit = 0
    /\ Len(all_cves.data) = 2
    /\ \E k \in 1..Len(Fetched) :
           Fetched[k].cve \in ReaderIds /\ IsResolvedFor(Fetched[k].rec)

\* C10: from the end of the reader on the ignore set only shrinks; a step of
\* the loop removes an identifier only when the record it handles has a
\* status for the target distribution, and then removes that identifier and
\* no other; a step that handles a record of an identifier that is not (or no
\* longer) in the ignore set changes neither the resolved flag, nor the ignore
\* set, nor the log; no identifier is classified twice.
C10_ShrinkOnceFrame ==
    [][ /\ pc \in {"fetch", "check", "classify", "verdict"} =>
            /\ SetOf(ignored_cves') \subseteq SetOf(ignored_cves)
            /\ Len(ignored_cves') <= Len(ignored_cves)
        /\ (pc = "classify" /\ ~RecordStep) => ignored_cves' = ignored_cves
        /\ RecordStep =>
            /\ ignored_cves' # ignored_cves =>
                  /\ HasStatusFor(Handled.rec)
                  /\ In(Handled.cve, ignored_cves)
                  /\ SetOf(ignored_cves') = SetOf(ignored_cves) \ {Handled.cve}
            /\ ~In(Handled.cve, ignored_cves) =>
                  /\ UNCHANGED <<resolved, ignored_cves, log>>
                  /\ visited'[Len(visited')].branch = "untracked"
            /\ \A i, j \in 1..Len(visited') :
                  ( /\ i < j
                    /\ visited'[i].cve = visited'[j].cve
                    /\ visited'[i].branch \in {"resolved", "not_resolved"} )
                  => visited'[j].branch = "untracked"
      ]_vars

C10_Witness ==
    /\ pc = "classify"
    /\ resolved = FALSE
    /\ \E i, j \in 1..Len(visited) :
           /\ i < j
           /\ visited[i].cve = visited[j].cve
           /\ visited[i].branch = "not_resolved"
           /\ visited[j].branch = "untracked"
           /\ IsResolvedFor(Fetched[j].rec)

=============================================================================
